---- MODULE Spec2Model ----
(***************************************************************************)
(* Model of src/iradio_scrape.py: the MM/DD date resolution (mmdd_to_iso), *)
(* the token-stream record reconstruction (the parse_rows that is in force *)
(* at import time, i.e. the second definition, lines 166-238), fetch_html, *)
(* the page walker, merge_dedupe and main.                                 *)
(*                                                                         *)
(* parse_rows calls find_header_and_mode at line 167.  No definition of    *)
(* that name exists in the module, so the call raises NameError and the    *)
(* scan loop of lines 175-235 is never entered.                            *)
(*                                                                         *)
(* Text.  A token is a sequence of characters; a character is a string.   *)
(* ASCII characters stand for themselves ("0", "/", "S").  Any other       *)
(* character is written as its Unicode code point, "u4E0B" for U+4E0B,     *)
(* because the module text is ASCII.  Patterns, substring tests, integer   *)
(* parsing and ISO formatting all work on these character sequences.       *)
(*                                                                         *)
(* Indices.  idx and the span positions are 0-based as in the Python code; *)
(* tok(ts, i) reads tokens[i].                                             *)
(***************************************************************************)
EXTENDS Integers, Sequences, FiniteSets, TLC

VARIABLES tokens, base_date, pc, has_date, idx, rows, spans, err, mmdd, resolved,
          call, first_result, saved,
          retries, attempt, last_err, responses, f_pc, f_body,
          w_pc, max_pages, page, requested, outcomes, dfs, w_result, w_err,
          m_pc, append_dedupe, csv_written, debug_error,
          g_pc, g_exists, g_old, g_new, g_out

\* parse_rows and mmdd_to_iso
pvars == <<tokens, base_date, pc, has_date, idx, rows, spans, err, mmdd, resolved>>
\* repeated parse_rows calls
tvars == <<call, first_result, saved>>
\* fetch_html
fvars == <<retries, attempt, last_err, responses, f_pc, f_body>>
\* fetch_dt_all_pages
wvars == <<w_pc, max_pages, page, requested, outcomes, dfs, w_result, w_err>>
\* main
mvars == <<m_pc, append_dedupe, csv_written, debug_error>>
\* merge_dedupe
gvars == <<g_pc, g_exists, g_old, g_new, g_out>>

xvars == <<tvars, fvars, wvars, mvars, gvars>>

vars == <<pvars, xvars>>

\* the parts of the program a specification does not run
IdleTwice == call = 0 /\ first_result = <<>> /\ saved = <<>>
IdleFetch ==
    /\ retries = 0 /\ attempt = 0 /\ last_err = "None" /\ responses = <<>>
    /\ f_pc = "idle" /\ f_body = ""
IdleWalk ==
    /\ w_pc = "idle" /\ max_pages = 0 /\ page = 0 /\ requested = <<>>
    /\ outcomes = <<>> /\ dfs = <<>> /\ w_result = <<>> /\ w_err = "none"
IdleMain == m_pc = "idle" /\ append_dedupe = FALSE /\ csv_written = FALSE /\ debug_error = "none"
IdleMerge == g_pc = "idle" /\ g_exists = FALSE /\ g_old = <<>> /\ g_new = <<>> /\ g_out = <<>>

---------------------------------------------------------------------------
(* Characters and the two token patterns                                   *)

\* The characters a str pattern's \d matches: every Unicode decimal digit
\* (category Nd), one row per script, each row in the order 0..9.
DecimalDigits ==
    <<
       <<"0", "1", "2", "3", "4", "5", "6", "7", "8", "9">>,
       <<"u0660", "u0661", "u0662", "u0663", "u0664", "u0665", "u0666", "u0667", "u0668", "u0669">>,
       <<"u06F0", "u06F1", "u06F2", "u06F3", "u06F4", "u06F5", "u06F6", "u06F7", "u06F8", "u06F9">>,
       <<"u07C0", "u07C1", "u07C2", "u07C3", "u07C4", "u07C5", "u07C6", "u07C7", "u07C8", "u07C9">>,
       <<"u0966", "u0967", "u0968", "u0969", "u096A", "u096B", "u096C", "u096D", "u096E", "u096F">>,
       <<"u09E6", "u09E7", "u09E8", "u09E9", "u09EA", "u09EB", "u09EC", "u09ED", "u09EE", "u09EF">>,
       <<"u0A66", "u0A67", "u0A68", "u0A69", "u0A6A", "u0A6B", "u0A6C", "u0A6D", "u0A6E", "u0A6F">>,
       <<"u0AE6", "u0AE7", "u0AE8", "u0AE9", "u0AEA", "u0AEB", "u0AEC", "u0AED", "u0AEE", "u0AEF">>,
       <<"u0B66", "u0B67", "u0B68", "u0B69", "u0B6A", "u0B6B", "u0B6C", "u0B6D", "u0B6E", "u0B6F">>,
       <<"u0BE6", "u0BE7", "u0BE8", "u0BE9", "u0BEA", "u0BEB", "u0BEC", "u0BED", "u0BEE", "u0BEF">>,
       <<"u0C66", "u0C67", "u0C68", "u0C69", "u0C6A", "u0C6B", "u0C6C", "u0C6D", "u0C6E", "u0C6F">>,
       <<"u0CE6", "u0CE7", "u0CE8", "u0CE9", "u0CEA", "u0CEB", "u0CEC", "u0CED", "u0CEE", "u0CEF">>,
       <<"u0D66", "u0D67", "u0D68", "u0D69", "u0D6A", "u0D6B", "u0D6C", "u0D6D", "u0D6E", "u0D6F">>,
       <<"u0DE6", "u0DE7", "u0DE8", "u0DE9", "u0DEA", "u0DEB", "u0DEC", "u0DED", "u0DEE", "u0DEF">>,
       <<"u0E50", "u0E51", "u0E52", "u0E53", "u0E54", "u0E55", "u0E56", "u0E57", "u0E58", "u0E59">>,
       <<"u0ED0", "u0ED1", "u0ED2", "u0ED3", "u0ED4", "u0ED5", "u0ED6", "u0ED7", "u0ED8", "u0ED9">>,
       <<"u0F20", "u0F21", "u0F22", "u0F23", "u0F24", "u0F25", "u0F26", "u0F27", "u0F28", "u0F29">>,
       <<"u1040", "u1041", "u1042", "u1043", "u1044", "u1045", "u1046", "u1047", "u1048", "u1049">>,
       <<"u1090", "u1091", "u1092", "u1093", "u1094", "u1095", "u1096", "u1097", "u1098", "u1099">>,
       <<"u17E0", "u17E1", "u17E2", "u17E3", "u17E4", "u17E5", "u17E6", "u17E7", "u17E8", "u17E9">>,
       <<"u1810", "u1811", "u1812", "u1813", "u1814", "u1815", "u1816", "u1817", "u1818", "u1819">>,
       <<"u1946", "u1947", "u1948", "u1949", "u194A", "u194B", "u194C", "u194D", "u194E", "u194F">>,
       <<"u19D0", "u19D1", "u19D2", "u19D3", "u19D4", "u19D5", "u19D6", "u19D7", "u19D8", "u19D9">>,
       <<"u1A80", "u1A81", "u1A82", "u1A83", "u1A84", "u1A85", "u1A86", "u1A87", "u1A88", "u1A89">>,
       <<"u1A90", "u1A91", "u1A92", "u1A93", "u1A94", "u1A95", "u1A96", "u1A97", "u1A98", "u1A99">>,
       <<"u1B50", "u1B51", "u1B52", "u1B53", "u1B54", "u1B55", "u1B56", "u1B57", "u1B58", "u1B59">>,
       <<"u1BB0", "u1BB1", "u1BB2", "u1BB3", "u1BB4", "u1BB5", "u1BB6", "u1BB7", "u1BB8", "u1BB9">>,
       <<"u1C40", "u1C41", "u1C42", "u1C43", "u1C44", "u1C45", "u1C46", "u1C47", "u1C48", "u1C49">>,
       <<"u1C50", "u1C51", "u1C52", "u1C53", "u1C54", "u1C55", "u1C56", "u1C57", "u1C58", "u1C59">>,
       <<"uA620", "uA621", "uA622", "uA623", "uA624", "uA625", "uA626", "uA627", "uA628", "uA629">>,
       <<"uA8D0", "uA8D1", "uA8D2", "uA8D3", "uA8D4", "uA8D5", "uA8D6", "uA8D7", "uA8D8", "uA8D9">>,
       <<"uA900", "uA901", "uA902", "uA903", "uA904", "uA905", "uA906", "uA907", "uA908", "uA909">>,
       <<"uA9D0", "uA9D1", "uA9D2", "uA9D3", "uA9D4", "uA9D5", "uA9D6", "uA9D7", "uA9D8", "uA9D9">>,
       <<"uA9F0", "uA9F1", "uA9F2", "uA9F3", "uA9F4", "uA9F5", "uA9F6", "uA9F7", "uA9F8", "uA9F9">>,
       <<"uAA50", "uAA51", "uAA52", "uAA53", "uAA54", "uAA55", "uAA56", "uAA57", "uAA58", "uAA59">>,
       <<"uABF0", "uABF1", "uABF2", "uABF3", "uABF4", "uABF5", "uABF6", "uABF7", "uABF8", "uABF9">>,
       <<"uFF10", "uFF11", "uFF12", "uFF13", "uFF14", "uFF15", "uFF16", "uFF17", "uFF18", "uFF19">>,
       <<"u104A0", "u104A1", "u104A2", "u104A3", "u104A4", "u104A5", "u104A6", "u104A7", "u104A8", "u104A9">>,
       <<"u10D30", "u10D31", "u10D32", "u10D33", "u10D34", "u10D35", "u10D36", "u10D37", "u10D38", "u10D39">>,
       <<"u11066", "u11067", "u11068", "u11069", "u1106A", "u1106B", "u1106C", "u1106D", "u1106E", "u1106F">>,
       <<"u110F0", "u110F1", "u110F2", "u110F3", "u110F4", "u110F5", "u110F6", "u110F7", "u110F8", "u110F9">>,
       <<"u11136", "u11137", "u11138", "u11139", "u1113A", "u1113B", "u1113C", "u1113D", "u1113E", "u1113F">>,
       <<"u111D0", "u111D1", "u111D2", "u111D3", "u111D4", "u111D5", "u111D6", "u111D7", "u111D8", "u111D9">>,
       <<"u112F0", "u112F1", "u112F2", "u112F3", "u112F4", "u112F5", "u112F6", "u112F7", "u112F8", "u112F9">>,
       <<"u11450", "u11451", "u11452", "u11453", "u11454", "u11455", "u11456", "u11457", "u11458", "u11459">>,
       <<"u114D0", "u114D1", "u114D2", "u114D3", "u114D4", "u114D5", "u114D6", "u114D7", "u114D8", "u114D9">>,
       <<"u11650", "u11651", "u11652", "u11653", "u11654", "u11655", "u11656", "u11657", "u11658", "u11659">>,
       <<"u116C0", "u116C1", "u116C2", "u116C3", "u116C4", "u116C5", "u116C6", "u116C7", "u116C8", "u116C9">>,
       <<"u11730", "u11731", "u11732", "u11733", "u11734", "u11735", "u11736", "u11737", "u11738", "u11739">>,
       <<"u118E0", "u118E1", "u118E2", "u118E3", "u118E4", "u118E5", "u118E6", "u118E7", "u118E8", "u118E9">>,
       <<"u11950", "u11951", "u11952", "u11953", "u11954", "u11955", "u11956", "u11957", "u11958", "u11959">>,
       <<"u11C50", "u11C51", "u11C52", "u11C53", "u11C54", "u11C55", "u11C56", "u11C57", "u11C58", "u11C59">>,
       <<"u11D50", "u11D51", "u11D52", "u11D53", "u11D54", "u11D55", "u11D56", "u11D57", "u11D58", "u11D59">>,
       <<"u11DA0", "u11DA1", "u11DA2", "u11DA3", "u11DA4", "u11DA5", "u11DA6", "u11DA7", "u11DA8", "u11DA9">>,
       <<"u16A60", "u16A61", "u16A62", "u16A63", "u16A64", "u16A65", "u16A66", "u16A67", "u16A68", "u16A69">>,
       <<"u16AC0", "u16AC1", "u16AC2", "u16AC3", "u16AC4", "u16AC5", "u16AC6", "u16AC7", "u16AC8", "u16AC9">>,
       <<"u16B50", "u16B51", "u16B52", "u16B53", "u16B54", "u16B55", "u16B56", "u16B57", "u16B58", "u16B59">>,
       <<"u1D7CE", "u1D7CF", "u1D7D0", "u1D7D1", "u1D7D2", "u1D7D3", "u1D7D4", "u1D7D5", "u1D7D6", "u1D7D7">>,
       <<"u1D7D8", "u1D7D9", "u1D7DA", "u1D7DB", "u1D7DC", "u1D7DD", "u1D7DE", "u1D7DF", "u1D7E0", "u1D7E1">>,
       <<"u1D7E2", "u1D7E3", "u1D7E4", "u1D7E5", "u1D7E6", "u1D7E7", "u1D7E8", "u1D7E9", "u1D7EA", "u1D7EB">>,
       <<"u1D7EC", "u1D7ED", "u1D7EE", "u1D7EF", "u1D7F0", "u1D7F1", "u1D7F2", "u1D7F3", "u1D7F4", "u1D7F5">>,
       <<"u1D7F6", "u1D7F7", "u1D7F8", "u1D7F9", "u1D7FA", "u1D7FB", "u1D7FC", "u1D7FD", "u1D7FE", "u1D7FF">>,
       <<"u1E140", "u1E141", "u1E142", "u1E143", "u1E144", "u1E145", "u1E146", "u1E147", "u1E148", "u1E149">>,
       <<"u1E2F0", "u1E2F1", "u1E2F2", "u1E2F3", "u1E2F4", "u1E2F5", "u1E2F6", "u1E2F7", "u1E2F8", "u1E2F9">>,
       <<"u1E950", "u1E951", "u1E952", "u1E953", "u1E954", "u1E955", "u1E956", "u1E957", "u1E958", "u1E959">>,
       <<"u1FBF0", "u1FBF1", "u1FBF2", "u1FBF3", "u1FBF4", "u1FBF5", "u1FBF6", "u1FBF7", "u1FBF8", "u1FBF9">>
    >>

\* the digits isoformat() writes
AsciiDigits == DecimalDigits[1]

Digits == UNION {{DecimalDigits[r][k] : k \in 1..10} : r \in 1..Len(DecimalDigits)}

IsDigit(c) == c \in Digits

\* int() of one decimal digit of any script
DigitVal(c) ==
    (CHOOSE k \in 1..10 : \E r \in 1..Len(DecimalDigits) : DecimalDigits[r][k] = c) - 1

\* int("dd") for a two-digit string (src line 52)
Int2(a, b) == 10 * DigitVal(a) + DigitVal(b)

\* "$" matches at the end of the text and before one final line break
EndOfPattern(t, n) == Len(t) = n \/ (Len(t) = n + 1 /\ t[n + 1] = "\n")

\* DATE_MMDD_RE = ^\d{2}/\d{2}$
DATE_MMDD_RE(t) ==
    /\ EndOfPattern(t, 5)
    /\ IsDigit(t[1]) /\ IsDigit(t[2])
    /\ t[3] = "/"
    /\ IsDigit(t[4]) /\ IsDigit(t[5])

\* TIME_RE = ^\d{2}:\d{2}$
TIME_RE(t) ==
    /\ EndOfPattern(t, 5)
    /\ IsDigit(t[1]) /\ IsDigit(t[2])
    /\ t[3] = ":"
    /\ IsDigit(t[4]) /\ IsDigit(t[5])

---------------------------------------------------------------------------
(* datetime.date: validity, ordinal, isoformat                             *)

IsLeap(y) == (y % 4 = 0) /\ ((y % 100 # 0) \/ (y % 400 = 0))

DaysInMonth(y, m) ==
    IF m = 2 THEN (IF IsLeap(y) THEN 29 ELSE 28)
    ELSE IF m \in {4, 6, 9, 11} THEN 30 ELSE 31

\* dt.date(y, m, d) raises ValueError unless this holds
ValidDate(y, m, d) ==
    /\ y >= 1 /\ y <= 9999
    /\ m >= 1 /\ m <= 12
    /\ d >= 1 /\ d <= DaysInMonth(y, m)

DaysBeforeYear(y) ==
    365 * (y - 1) + ((y - 1) \div 4) - ((y - 1) \div 100) + ((y - 1) \div 400)

RECURSIVE DaysBeforeMonth(_, _)
DaysBeforeMonth(y, m) ==
    IF m <= 1 THEN 0 ELSE DaysBeforeMonth(y, m - 1) + DaysInMonth(y, m - 1)

\* date.toordinal(); (x - base_date).days is the difference of two ordinals
Ordinal(dd) == DaysBeforeYear(dd.year) + DaysBeforeMonth(dd.year, dd.month) + dd.day

Abs(x) == IF x < 0 THEN 0 - x ELSE x

DayDistance(x, base) == Abs(Ordinal(x) - Ordinal(base))

MkDate(y, m, d) == [year |-> y, month |-> m, day |-> d]

Pad2(k) == <<AsciiDigits[((k \div 10) % 10) + 1], AsciiDigits[(k % 10) + 1]>>

Pad4(k) ==
    <<AsciiDigits[((k \div 1000) % 10) + 1], AsciiDigits[((k \div 100) % 10) + 1]>> \o Pad2(k % 100)

\* date.isoformat(): YYYY-MM-DD
IsoFormat(dd) == Pad4(dd.year) \o <<"-">> \o Pad2(dd.month) \o <<"-">> \o Pad2(dd.day)

---------------------------------------------------------------------------
(* mmdd_to_iso (src lines 50-62)                                           *)

\* the three candidate years, in the order of the list at lines 55-59
CandidateYears(base) == <<base.year, base.year - 1, base.year + 1>>

\* min(candidates, key=...): the first candidate of the list that no other
\* candidate beats
MinByDistance(cands, base) ==
    LET best == CHOOSE k \in 1..Len(cands) :
                    /\ \A j \in 1..Len(cands) :
                           DayDistance(cands[k], base) <= DayDistance(cands[j], base)
                    /\ \A j \in 1..(k - 1) :
                           DayDistance(cands[j], base) > DayDistance(cands[k], base)
    IN cands[best]

\* Result: [ok |-> TRUE, iso |-> text] or, when building any of the three
\* candidates raises, [ok |-> FALSE, iso |-> <<>>] (ValueError).
mmdd_to_iso(t, base) ==
    LET m == Int2(t[1], t[2])
        d == Int2(t[4], t[5])
        ys == CandidateYears(base)
    IN IF \A k \in 1..3 : ValidDate(ys[k], m, d)
       THEN [ok |-> TRUE,
             iso |-> IsoFormat(MinByDistance([k \in 1..3 |-> MkDate(ys[k], m, d)], base))]
       ELSE [ok |-> FALSE, iso |-> <<>>]

---------------------------------------------------------------------------
(* Stop words and is_stop (src lines 26, 172-173)                          *)

\* NAV_STOP_WORDS, in source order: previous page, next page, site home,
\* "please choose", "the content of this site belongs to"
NAV_STOP_WORDS ==
    << <<"u4E0A", "u4E00", "u9801">>,
       <<"u4E0B", "u4E00", "u9801">>,
       <<"u5B98", "u7DB2", "u9996", "u9801">>,
       <<"u8ACB", "u9078", "u64C7">>,
       <<"u672C", "u7DB2", "u7AD9", "u5167", "u5BB9", "u5C6C", "u65BC">> >>

\* Python "w in x" for strings: w occurs in x as a contiguous substring
Contains(x, w) ==
    \E s \in 0..(Len(x) - Len(w)) : \A k \in 1..Len(w) : x[s + k] = w[k]

is_stop(x) == \E k \in 1..Len(NAV_STOP_WORDS) : Contains(x, NAV_STOP_WORDS[k])

---------------------------------------------------------------------------
(* Layouts.  The specification (section 4.3) describes a layout detector   *)
(* that gives the layout of a page and the index where its data starts.    *)
(* The source has no such function: line 167 calls the undefined name      *)
(* find_header_and_mode.  The detector below is the specification's; no    *)
(* action uses it, the properties use it to say which layout a page has    *)
(* and where its data region starts.                                       *)

LabelDate == <<"u65E5", "u671F">>
LabelTime == <<"u64AD", "u51FA", "u6642", "u9593">>
LabelSong == <<"u6B4C", "u66F2", "u540D", "u7A31">>
LabelPerformer == <<"u6F14", "u5531", "(", "u594F", ")", "u8005">>
LabelAlbum == <<"u5C08", "u8F2F">>
LabelPublisher == <<"u51FA", "u7248", "u8005">>
LabelCatalog == <<"C", "D", "u7DE8", "u865F">>

HeaderWithDate == <<LabelDate, LabelTime, LabelSong, LabelPerformer>>
HeaderWithoutDate == <<LabelTime, LabelSong, LabelPerformer>>

HeaderLabels ==
    {LabelDate, LabelTime, LabelSong, LabelPerformer, LabelAlbum, LabelPublisher, LabelCatalog}

tok(ts, i) == ts[i + 1]

\* the run h occurs in ts at 0-based position i
RunAt(ts, i, h) ==
    /\ i + Len(h) <= Len(ts)
    /\ \A k \in 1..Len(h) : ts[i + k] = h[k]

RECURSIVE SkipLabels(_, _)
SkipLabels(ts, i) ==
    IF i < Len(ts) /\ tok(ts, i) \in HeaderLabels THEN SkipLabels(ts, i + 1) ELSE i

\* [ok, has_date, idx]: ok = FALSE is the "layout not recognized" failure.
find_header_and_mode(ts) ==
    LET n == Len(ts)
        hdr == {i \in 0..(n - 1) : RunAt(ts, i, HeaderWithDate) \/ RunAt(ts, i, HeaderWithoutDate)}
        shaped == {i \in 0..(n - 1) : DATE_MMDD_RE(tok(ts, i)) \/ TIME_RE(tok(ts, i))}
    IN IF hdr # {}
       THEN LET i == CHOOSE a \in hdr : \A b \in hdr : a <= b
                wd == RunAt(ts, i, HeaderWithDate)
            IN [ok |-> TRUE, has_date |-> wd,
                idx |-> SkipLabels(ts, i + (IF wd THEN Len(HeaderWithDate) ELSE Len(HeaderWithoutDate)))]
       ELSE IF shaped # {}
       THEN LET i == CHOOSE a \in shaped : \A b \in shaped : a <= b
            IN [ok |-> TRUE, has_date |-> DATE_MMDD_RE(tok(ts, i)), idx |-> i]
       ELSE [ok |-> FALSE, has_date |-> FALSE, idx |-> 0]

---------------------------------------------------------------------------
(* parse_rows, second definition (src lines 166-238): one loop iteration.  *)
(* The loop follows line 167 and is entered by no behaviour.               *)

\* A token can start a record (lines 183 and 197)
IsRecordStart(hd, t) == IF hd THEN DATE_MMDD_RE(t) ELSE TIME_RE(t)

\* A token ends the extras of the record before it (lines 217-222)
EndsExtras(hd, nt) ==
    \/ is_stop(nt)
    \/ (hd /\ DATE_MMDD_RE(nt))
    \/ ((~hd) /\ TIME_RE(nt))

\* The inner while loop (lines 215-224): the index where it leaves idx
RECURSIVE ExtrasEnd(_, _, _)
ExtrasEnd(hd, ts, j) ==
    IF j < Len(ts) /\ ~EndsExtras(hd, tok(ts, j)) THEN ExtrasEnd(hd, ts, j + 1) ELSE j

\* extras[k] if len(extras) > k else "" (lines 231-233); extras are the
\* tokens from position first up to, not including, position last
ExtraOrEmpty(ts, first, last, k) == IF first + k < last THEN tok(ts, first + k) ELSE <<>>

\* The row dict of lines 226-234; the keys are the CSV column names of the
\* source (date, play time, song name, performer, album, publisher, CD no.)
MakeRow(date_iso, play_time, song, artist, ts, first, last) ==
    [date |-> date_iso,
     time |-> play_time,
     song |-> song,
     performer |-> artist,
     album |-> ExtraOrEmpty(ts, first, last, 0),
     publisher |-> ExtraOrEmpty(ts, first, last, 1),
     catalog_number |-> ExtraOrEmpty(ts, first, last, 2)]

\* Where the song slot is once a record start is accepted at idx
\* (idx += 1 at line 187 and again at line 192, or once at line 201)
FieldsIndex(hd, i) == IF hd THEN i + 2 ELSE i + 1

\* With-date layout: the date token is followed by a time token (line 189)
TimeFollows(ts, i) == i + 1 < Len(ts) /\ TIME_RE(tok(ts, i + 1))

\* The date given to a record started at idx (lines 186 and 195)
RowDate(hd, ts, i, base) ==
    IF hd THEN mmdd_to_iso(tok(ts, i), base).iso ELSE IsoFormat(base)

\* The time given to a record started at idx (lines 191 and 200)
RowTime(hd, ts, i) == IF hd THEN tok(ts, i + 1) ELSE tok(ts, i)

\* A record start is accepted at idx: the iteration reaches line 204
StartAccepted(hd, ts, i, base) ==
    /\ i < Len(ts)
    /\ ~is_stop(tok(ts, i))
    /\ IsRecordStart(hd, tok(ts, i))
    /\ hd => (mmdd_to_iso(tok(ts, i), base).ok /\ TimeFollows(ts, i))

---------------------------------------------------------------------------
(* Inputs                                                                  *)

MaxData == 4
RefYearSpan == 2
MaxMonthIn == 13
MaxDayIn == 32

TokDate == <<"0", "1", "/", "0", "5">>
TokBadDate == <<"1", "3", "/", "0", "1">>
TokTime == <<"1", "6", ":", "2", "7">>
TokTime2 == <<"1", "6", ":", "3", "0">>
TokBadTime == <<"2", "5", ":", "6", "1">>
TokSongA == <<"S", "o", "n", "g", " ", "A">>
TokSongB == <<"S", "o", "n", "g", " ", "B">>
TokArtistA == <<"A", "r", "t", "i", "s", "t", " ", "A">>
TokArtistB == <<"A", "r", "t", "i", "s", "t", " ", "B">>
TokAlbumA == <<"A", "l", "b", "u", "m", " ", "A">>
TokLabelA == <<"L", "a", "b", "e", "l", " ", "A">>
TokCatalogA == <<"C", "D", "-", "1">>
\* a navigation link text that contains the "next page" stop word
TokNextPage == <<"u4E0B", "u4E00", "u9801", " ", ">", ">">>

DataTokens == {TokDate, TokBadDate, TokTime, TokBadTime, TokSongA, TokNextPage}

DataSeqs == UNION {[1..k -> DataTokens] : k \in 0..MaxData}

\* what precedes the data on a page: nothing, or one of the header runs
HeaderRuns == {<<>>, HeaderWithDate, HeaderWithoutDate, HeaderWithDate \o <<LabelAlbum>>}

ExamplePages ==
    { HeaderWithDate \o <<TokDate, TokTime, TokSongA, TokArtistA, TokAlbumA>>,
      <<TokTime, TokSongA, TokArtistA, TokTime2, TokSongB, TokArtistB>>,
      <<TokDate, TokTime, TokDate, TokTime2, TokSongB, TokArtistB>>,
      <<TokTime, TokSongA, TokArtistA, TokDate, TokTime2, TokSongB, TokArtistB>>,
      <<TokBadDate, TokTime, TokSongA, TokArtistA, TokDate, TokTime2, TokSongB, TokArtistB>>,
      \* a record with four extras ended by the next record, in each layout
      HeaderWithoutDate \o <<TokTime, TokSongA, TokArtistA, TokAlbumA, TokLabelA, TokCatalogA,
                             TokSongB, TokTime2, TokSongB, TokArtistB>>,
      HeaderWithDate \o <<TokDate, TokTime, TokSongA, TokArtistA, TokAlbumA, TokLabelA,
                          TokCatalogA, TokSongB, TokDate, TokTime2, TokSongB, TokArtistB,
                          TokAlbumA, TokNextPage>>,
      \* text and a date without a time before two records
      HeaderWithDate \o <<TokSongA, TokDate, TokSongB, TokDate, TokTime, TokSongA, TokArtistA,
                          TokDate, TokTime2, TokSongB, TokArtistB>> }

Pages == {h \o d : h \in HeaderRuns, d \in DataSeqs} \cup ExamplePages

RefDates == {MkDate(2024, 1, 10), MkDate(2024, 2, 1)}

\* tokens the date pattern matches although they are not five ASCII
\* characters: fullwidth 01/05 and 02/29, Arabic-Indic 12/31, a mix of
\* ASCII and fullwidth digits (12/31), an Arabic-Indic 13/01, and 01/05
\* and 02/30 followed by a newline
OtherDigitInputs ==
    { <<"uFF10", "uFF11", "/", "uFF10", "uFF15">>,
      <<"uFF10", "uFF12", "/", "uFF12", "uFF19">>,
      <<"u0661", "u0662", "/", "u0663", "u0661">>,
      <<"1", "uFF12", "/", "uFF13", "1">>,
      <<"u0661", "u0663", "/", "u0660", "u0661">>,
      <<"0", "1", "/", "0", "5", "\n">>,
      <<"0", "2", "/", "3", "0", "\n">> }

MmddInputs ==
    {Pad2(m) \o <<"/">> \o Pad2(d) : m \in 0..MaxMonthIn, d \in 0..MaxDayIn}
    \cup OtherDigitInputs

DateRefs ==
    {MkDate(y, m, d) : y \in 2023..(2023 + RefYearSpan), m \in 1..12,
                       d \in {1, 2, 10, 28}}
    \cup {MkDate(2024, 2, 29), MkDate(2023, 12, 30), MkDate(2023, 12, 31), MkDate(2024, 3, 31)}

NoResult == [ok |-> TRUE, iso |-> <<>>]

---------------------------------------------------------------------------
(* Specification of one parse_rows call                                    *)

Init ==
    /\ tokens \in Pages
    /\ base_date \in RefDates
    /\ pc = "start"
    /\ has_date = FALSE
    /\ idx = 0
    /\ rows = <<>>
    /\ spans = <<>>
    /\ err = "none"
    /\ mmdd = <<>>
    /\ resolved = NoResult
    /\ IdleTwice /\ IdleFetch /\ IdleWalk /\ IdleMain /\ IdleMerge

\* line 167: the name find_header_and_mode is not defined, the call raises
\* NameError on every page and nothing in parse_rows catches it
DetectRaises ==
    /\ pc = "start"
    /\ pc' = "raised"
    /\ err' = "NameError"
    /\ UNCHANGED <<tokens, base_date, has_date, idx, rows, spans, mmdd, resolved>>
    /\ UNCHANGED xvars

\* The branches of the loop body, lines 175-235.  Each needs pc = "scan",
\* the state after line 167 has returned, which no behaviour reaches.

\* line 175 false: the loop ends, lines 237-238 return the rows
ScanEnd ==
    /\ pc = "scan"
    /\ idx >= Len(tokens)
    /\ pc' = "done"
    /\ UNCHANGED <<tokens, base_date, has_date, idx, rows, spans, err, mmdd, resolved>>
    /\ UNCHANGED xvars

\* lines 178-179: a stop word at the cursor ends the scan
ScanStop ==
    /\ pc = "scan"
    /\ idx < Len(tokens)
    /\ is_stop(tok(tokens, idx))
    /\ pc' = "done"
    /\ UNCHANGED <<tokens, base_date, has_date, idx, rows, spans, err, mmdd, resolved>>
    /\ UNCHANGED xvars

\* lines 183-185 and 197-199: the token cannot start a record
ScanSkip ==
    /\ pc = "scan"
    /\ idx < Len(tokens)
    /\ ~is_stop(tok(tokens, idx))
    /\ ~IsRecordStart(has_date, tok(tokens, idx))
    /\ idx' = idx + 1
    /\ UNCHANGED <<tokens, base_date, pc, has_date, rows, spans, err, mmdd, resolved>>
    /\ UNCHANGED xvars

\* line 186: mmdd_to_iso raises ValueError, which parse_rows does not catch
ScanDateError ==
    /\ pc = "scan"
    /\ idx < Len(tokens)
    /\ ~is_stop(tok(tokens, idx))
    /\ has_date
    /\ DATE_MMDD_RE(tok(tokens, idx))
    /\ ~mmdd_to_iso(tok(tokens, idx), base_date).ok
    /\ pc' = "raised"
    /\ err' = "ValueError"
    /\ UNCHANGED <<tokens, base_date, has_date, idx, rows, spans, mmdd, resolved>>
    /\ UNCHANGED xvars

\* lines 186-190: a date token that no time token follows
ScanDateNoTime ==
    /\ pc = "scan"
    /\ idx < Len(tokens)
    /\ ~is_stop(tok(tokens, idx))
    /\ has_date
    /\ DATE_MMDD_RE(tok(tokens, idx))
    /\ mmdd_to_iso(tok(tokens, idx), base_date).ok
    /\ ~TimeFollows(tokens, idx)
    /\ idx' = idx + 1
    /\ UNCHANGED <<tokens, base_date, pc, has_date, rows, spans, err, mmdd, resolved>>
    /\ UNCHANGED xvars

\* lines 204-205 and 209-210: the tokens end before song or performer
ScanCutOff ==
    /\ pc = "scan"
    /\ StartAccepted(has_date, tokens, idx, base_date)
    /\ FieldsIndex(has_date, idx) + 1 >= Len(tokens)
    /\ pc' = "done"
    /\ idx' = IF FieldsIndex(has_date, idx) >= Len(tokens)
              THEN FieldsIndex(has_date, idx)
              ELSE FieldsIndex(has_date, idx) + 1
    /\ UNCHANGED <<tokens, base_date, has_date, rows, spans, err, mmdd, resolved>>
    /\ UNCHANGED xvars

\* lines 206-235: song, performer, extras, and the row is appended
ScanEmit ==
    /\ pc = "scan"
    /\ StartAccepted(has_date, tokens, idx, base_date)
    /\ FieldsIndex(has_date, idx) + 1 < Len(tokens)
    /\ LET f == FieldsIndex(has_date, idx)
           e == ExtrasEnd(has_date, tokens, f + 2)
       IN /\ rows' = Append(rows, MakeRow(RowDate(has_date, tokens, idx, base_date),
                                          RowTime(has_date, tokens, idx),
                                          tok(tokens, f), tok(tokens, f + 1),
                                          tokens, f + 2, e))
          /\ spans' = Append(spans, [start |-> idx, end |-> e])
          /\ idx' = e
    /\ UNCHANGED <<tokens, base_date, pc, has_date, err, mmdd, resolved>>
    /\ UNCHANGED xvars

Next == DetectRaises

Spec == Init /\ [][Next]_vars

---------------------------------------------------------------------------
(* Specification of one mmdd_to_iso call on a pattern-shaped token         *)

InitDate ==
    /\ mmdd \in MmddInputs
    /\ base_date \in DateRefs
    /\ pc = "date_in"
    /\ resolved = NoResult
    /\ tokens = <<>>
    /\ has_date = FALSE
    /\ idx = 0
    /\ rows = <<>>
    /\ spans = <<>>
    /\ err = "none"
    /\ IdleTwice /\ IdleFetch /\ IdleWalk /\ IdleMain /\ IdleMerge

ResolveDate ==
    /\ pc = "date_in"
    /\ resolved' = mmdd_to_iso(mmdd, base_date)
    /\ err' = IF mmdd_to_iso(mmdd, base_date).ok THEN "none" ELSE "ValueError"
    /\ pc' = "date_out"
    /\ UNCHANGED <<tokens, base_date, has_date, idx, rows, spans, mmdd>>
    /\ UNCHANGED xvars

NextDate == ResolveDate

SpecDate == InitDate /\ [][NextDate]_vars

---------------------------------------------------------------------------
(* Properties                                                              *)

\* first data token as chosen by the layout detector
\* the layout of the page and the start of its data region, as the
\* specification's detector gives them
Layout == find_header_and_mode(tokens)

WithDateLayout == Layout.ok /\ Layout.has_date

NoDateLayout == Layout.ok /\ ~Layout.has_date

DataStart == Layout.idx

\* the call has returned or raised
CallOver == pc \in {"done", "raised"}

Scanned == pc \in {"scan", "done"}

Positions == 0..(Len(tokens) - 1)

\* neither date-shaped nor time-shaped, and no stop word: ordinary text
PlainText(t) == ~DATE_MMDD_RE(t) /\ ~TIME_RE(t) /\ ~is_stop(t)

\* HH:MM with hour 00-23 and minute 00-59
Valid24h(t) == TIME_RE(t) /\ Int2(t[1], t[2]) <= 23 /\ Int2(t[4], t[5]) <= 59

\* C1: every record emitted by parse_rows has a non-empty date, a time that
\* is a valid 24-hour HH:MM value (hour 00-23, minute 00-59), a non-empty
\* song and a non-empty performer.
C1_EmittedRecordsValid ==
    \A k \in 1..Len(rows) :
        /\ rows[k].date # <<>>
        /\ Valid24h(rows[k].time)
        /\ rows[k].song # <<>>
        /\ rows[k].performer # <<>>

\* C2: no token at or after the first stop-word position of the data region
\* is used by an emitted record, whatever slot the stop word falls in.
C2_StopWordEndsScan ==
    Scanned =>
        \A k \in 1..Len(rows) : \A p \in Positions :
            (p >= DataStart /\ is_stop(tok(tokens, p))) => spans[k].end <= p

\* MM/DD names a day that exists in some year (02/29 included)
ValidCalendarDay(t) ==
    /\ Int2(t[1], t[2]) \in 1..12
    /\ Int2(t[4], t[5]) >= 1
    /\ Int2(t[4], t[5]) <= (IF Int2(t[1], t[2]) = 2 THEN 29 ELSE DaysInMonth(1, Int2(t[1], t[2])))

\* the dates that the year candidates and the month/day of t form
ExistingCandidates(t, base) ==
    {MkDate(y, Int2(t[1], t[2]), Int2(t[4], t[5])) : y \in
        {z \in {base.year - 1, base.year, base.year + 1} :
             ValidDate(z, Int2(t[1], t[2]), Int2(t[4], t[5]))}}

\* C3: for every MM/DD token that denotes a valid calendar day and every
\* reference date, mmdd_to_iso returns without raising, and returns the
\* candidate of (reference year, year - 1, year + 1) nearest in days to the
\* reference date.
C3_NearestCandidate ==
    (pc = "date_out" /\ ValidCalendarDay(mmdd)) =>
        /\ resolved.ok
        /\ \E c \in ExistingCandidates(mmdd, base_date) :
              /\ resolved.iso = IsoFormat(c)
              /\ \A o \in ExistingCandidates(mmdd, base_date) :
                     DayDistance(c, base_date) <= DayDistance(o, base_date)

\* C4: every emitted record starts, inside the data region, at a token that
\* matches the date pattern and is followed by a time-pattern token
\* (with-date layout) or at a token that matches the time pattern (layout
\* without a date column); its time field is that time token.  A token
\* matching neither pattern is never the first token of a record.
C4_RecordsStartAtDateOrTime ==
    \A k \in 1..Len(rows) :
        LET s == spans[k].start
        IN /\ s >= DataStart
           /\ s < Len(tokens)
           /\ has_date => /\ DATE_MMDD_RE(tok(tokens, s))
                          /\ s + 1 < Len(tokens)
                          /\ TIME_RE(tok(tokens, s + 1))
                          /\ rows[k].time = tok(tokens, s + 1)
           /\ (~has_date) => /\ TIME_RE(tok(tokens, s))
                             /\ rows[k].time = tok(tokens, s)

\* a with-date record candidate at p: date token, time token, then two
\* ordinary text tokens, with no stop word from the data start up to them
DateOccurrence(p) ==
    /\ p >= DataStart
    /\ p + 3 < Len(tokens)
    /\ DATE_MMDD_RE(tok(tokens, p))
    /\ mmdd_to_iso(tok(tokens, p), base_date).ok
    /\ TIME_RE(tok(tokens, p + 1))
    /\ PlainText(tok(tokens, p + 2))
    /\ PlainText(tok(tokens, p + 3))
    /\ \A q \in DataStart..p : ~is_stop(tok(tokens, q))

\* the fields the record of the candidate at p must have
DateOccurrenceRow(p, r, sp) ==
    /\ sp.start = p
    /\ r.date = mmdd_to_iso(tok(tokens, p), base_date).iso
    /\ r.time = tok(tokens, p + 1)
    /\ r.song = tok(tokens, p + 2)
    /\ r.performer = tok(tokens, p + 3)
    /\ r.album = (IF p + 4 < sp.end THEN tok(tokens, p + 4) ELSE <<>>)
    /\ r.publisher = (IF p + 5 < sp.end THEN tok(tokens, p + 5) ELSE <<>>)
    /\ r.catalog_number = (IF p + 6 < sp.end THEN tok(tokens, p + 6) ELSE <<>>)

\* C5: in the with-date layout every data-region occurrence of a date token
\* immediately followed by a time token and two more tokens yields exactly
\* one record with that date resolved, that time, those two tokens as song
\* and performer and the following extras; header tokens yield no record.
C5_EveryDateOccurrenceYieldsRecord ==
    (CallOver /\ WithDateLayout) =>
        /\ \A k \in 1..Len(rows) : spans[k].start >= DataStart
        /\ \A p \in Positions :
              DateOccurrence(p) =>
                  /\ Cardinality({k \in 1..Len(rows) : spans[k].start = p}) = 1
                  /\ \E k \in 1..Len(rows) : DateOccurrenceRow(p, rows[k], spans[k])

NoDateTokens == \A p \in Positions : ~DATE_MMDD_RE(tok(tokens, p))

\* a record candidate of the layout without a date column at p: time
\* token, then two ordinary text tokens, with no stop word before them
TimeOccurrence(p) ==
    /\ p >= DataStart
    /\ p + 2 < Len(tokens)
    /\ TIME_RE(tok(tokens, p))
    /\ PlainText(tok(tokens, p + 1))
    /\ PlainText(tok(tokens, p + 2))
    /\ \A q \in DataStart..p : ~is_stop(tok(tokens, q))

\* C6: on a page without date tokens every emitted record is dated with the
\* reference date in ISO form, and in the layout without a date column each
\* time token followed by a song and a performer token starts its own record.
C6_TimeTokensStartRecords ==
    (CallOver /\ NoDateTokens) =>
        /\ \A k \in 1..Len(rows) : rows[k].date = IsoFormat(base_date)
        /\ NoDateLayout =>
              \A p \in Positions :
                  TimeOccurrence(p) =>
                      \E k \in 1..Len(rows) :
                          /\ rows[k].date = IsoFormat(base_date)
                          /\ rows[k].time = tok(tokens, p)
                          /\ rows[k].song = tok(tokens, p + 1)
                          /\ rows[k].performer = tok(tokens, p + 2)

\* a date- or time-shaped token
PatternShaped(t) == DATE_MMDD_RE(t) \/ TIME_RE(t)

\* the first candidate of the page starts at the data start, and the token
\* r in its song or performer slot is date- or time-shaped and is itself
\* followed by what makes a record in the layout of the page
MisplacedStart(r) ==
    /\ Layout.ok
    /\ DataStart < Len(tokens)
    /\ IF Layout.has_date
       THEN /\ DATE_MMDD_RE(tok(tokens, DataStart))
            /\ mmdd_to_iso(tok(tokens, DataStart), base_date).ok
            /\ DataStart + 1 < Len(tokens)
            /\ TIME_RE(tok(tokens, DataStart + 1))
            /\ r \in {DataStart + 2, DataStart + 3}
            /\ DateOccurrence(r)
       ELSE /\ TIME_RE(tok(tokens, DataStart))
            /\ r \in {DataStart + 1, DataStart + 2}
            /\ TimeOccurrence(r)

\* C7: no record is emitted whose song or performer matches the date
\* pattern or the time pattern: such a candidate is aborted and the scan
\* resumes right after its start, so that a date or time token found in the
\* song or performer slot starts its own record when time (with-date
\* layout), song and performer follow it.
C7_NoDateOrTimeShapedFields ==
    /\ \A k \in 1..Len(rows) :
           ~PatternShaped(rows[k].song) /\ ~PatternShaped(rows[k].performer)
    /\ CallOver =>
           \A r \in Positions :
               MisplacedStart(r) =>
                   \E k \in 1..Len(rows) :
                       IF Layout.has_date
                       THEN /\ rows[k].time = tok(tokens, r + 1)
                            /\ rows[k].song = tok(tokens, r + 2)
                            /\ rows[k].performer = tok(tokens, r + 3)
                       ELSE /\ rows[k].time = tok(tokens, r)
                            /\ rows[k].song = tok(tokens, r + 1)
                            /\ rows[k].performer = tok(tokens, r + 2)

\* the page has, in the with-date layout, a token of the data region that
\* matches MM/DD and names no calendar day
HasBadDateToken ==
    /\ WithDateLayout
    /\ \E p \in Positions :
           /\ p >= DataStart
           /\ DATE_MMDD_RE(tok(tokens, p))
           /\ ~ValidCalendarDay(tok(tokens, p))

\* C8: a token in the date slot that matches MM/DD but is no real calendar
\* day never makes parse_rows raise: the candidate is discarded, the scan
\* goes on and the well-formed records that follow it are emitted.
C8_BadDateNeverRaises ==
    (CallOver /\ HasBadDateToken) =>
        /\ pc = "done"
        /\ \A p \in Positions :
               (DateOccurrence(p) /\ \E b \in DataStart..(p - 1) :
                    DATE_MMDD_RE(tok(tokens, b)) /\ ~ValidCalendarDay(tok(tokens, b)))
               => \E k \in 1..Len(rows) :
                      /\ rows[k].time = tok(tokens, p + 1)
                      /\ rows[k].song = tok(tokens, p + 2)
                      /\ rows[k].performer = tok(tokens, p + 3)

NoHeaderRun ==
    \A p \in Positions :
        ~RunAt(tokens, p, HeaderWithDate) /\ ~RunAt(tokens, p, HeaderWithoutDate)

\* position of the time token of the record with span sp
TimePosition(sp) == IF has_date THEN sp.start + 1 ELSE sp.start

\* the rolling date at position q: the most recent date token before q
\* resolved against the reference date, or the reference date
RollingDate(q) ==
    LET ds == {p \in 0..(q - 1) : DATE_MMDD_RE(tok(tokens, p))}
    IN IF ds = {} THEN IsoFormat(base_date)
       ELSE mmdd_to_iso(tok(tokens, CHOOSE a \in ds : \A b \in ds : b <= a), base_date).iso

\* C9: in the header-less layout every record started by a time token
\* carries the date of the most recent preceding date token, or the
\* reference date when no date token precedes it.
C9_RollingDateHeaderless ==
    ( /\ pc = "done"
      /\ NoHeaderRun
      /\ \A p \in Positions :
             DATE_MMDD_RE(tok(tokens, p)) => mmdd_to_iso(tok(tokens, p), base_date).ok )
    => \A k \in 1..Len(rows) : rows[k].date = RollingDate(TimePosition(spans[k]))

\* C10: when no layout can be recognised for the page, parse_rows returns an
\* empty record set to the page walker instead of failing.
C10_UnrecognisedLayoutYieldsEmpty ==
    (CallOver /\ ~Layout.ok) => (pc = "done" /\ rows = <<>>)

---------------------------------------------------------------------------
(* fetch_html (src lines 29-47)                                            *)

MaxRetries == 3
DefaultRetries == 6

\* what one requests.get can give: a response (status, text) or an exception
Responses ==
    {[exc |-> FALSE, status |-> 200, body |-> "html-a"],
     [exc |-> FALSE, status |-> 200, body |-> "html-b"],
     [exc |-> FALSE, status |-> 200, body |-> ""],
     [exc |-> FALSE, status |-> 500, body |-> "error page"],
     [exc |-> TRUE, status |-> 0, body |-> ""]}

\* line 41 without the test of r.text: an empty 200 answer is returned
IsSuccess_StatusOnly(r) == (~r.exc) /\ r.status = 200

\* line 41: r.status_code == 200 and r.text
IsSuccess(r) == (~r.exc) /\ r.status = 200 /\ r.body # ""

NoError == [type |-> "None", status |-> 0]

\* lines 43 and 45: RuntimeError("HTTP <status>") or the exception caught
FailureOf(r) ==
    IF r.exc THEN [type |-> "ConnectionError", status |-> 0]
    ELSE [type |-> "RuntimeError", status |-> r.status]

\* lines 30-31: entry of fetch_html with the given retry count
FetchEntry(n) ==
    /\ retries' = n
    /\ attempt' = 0
    /\ last_err' = NoError
    /\ responses' = <<>>
    /\ f_pc' = "try"
    /\ f_body' = ""

\* lines 33-42: an attempt answers 200 with a body; its text is returned
FetchSuccess ==
    /\ f_pc = "try"
    /\ attempt < retries
    /\ \E r \in Responses :
          /\ IsSuccess(r)
          /\ responses' = Append(responses, r)
          /\ f_body' = r.body
    /\ attempt' = attempt + 1
    /\ f_pc' = "returned"
    /\ UNCHANGED <<retries, last_err>>
    /\ UNCHANGED <<pvars, tvars, wvars, mvars, gvars>>

\* lines 43-46: another status, an empty body or an exception; then sleep
FetchFailure ==
    /\ f_pc = "try"
    /\ attempt < retries
    /\ \E r \in Responses :
          /\ ~IsSuccess(r)
          /\ responses' = Append(responses, r)
          /\ last_err' = FailureOf(r)
    /\ attempt' = attempt + 1
    /\ UNCHANGED <<retries, f_pc, f_body>>
    /\ UNCHANGED <<pvars, tvars, wvars, mvars, gvars>>

\* line 47: the loop is over, RuntimeError(... last_err=...) is raised
FetchExhausted ==
    /\ f_pc = "try"
    /\ attempt >= retries
    /\ f_pc' = "raised"
    /\ UNCHANGED <<retries, attempt, last_err, responses, f_body>>
    /\ UNCHANGED <<pvars, tvars, wvars, mvars, gvars>>

IdleParse ==
    /\ tokens = <<>> /\ base_date = MkDate(2024, 1, 10) /\ pc = "idle"
    /\ has_date = FALSE /\ idx = 0 /\ rows = <<>> /\ spans = <<>> /\ err = "none"
    /\ mmdd = <<>> /\ resolved = NoResult

InitFetch ==
    /\ retries \in 0..MaxRetries
    /\ attempt = 0
    /\ last_err = NoError
    /\ responses = <<>>
    /\ f_pc = "try"
    /\ f_body = ""
    /\ IdleParse /\ IdleTwice /\ IdleWalk /\ IdleMain /\ IdleMerge

NextFetch ==
    \/ FetchSuccess
    \/ FetchFailure
    \/ FetchExhausted

SpecFetch == InitFetch /\ [][NextFetch]_vars

---------------------------------------------------------------------------
(* fetch_dt_all_pages (src lines 241-273) and main (src lines 287-314)     *)

MaxPagesArg == 3
MaxPageRows == 6
MinRowsToContinue == 5

\* The frame of a page with n rows after lines 263-265: each row carries its
\* page number (column "page"); k is its position on the page
PageRows(pg, n) == [k \in 1..n |-> [page |-> pg, row |-> k]]

\* pd.concat(dfs, ignore_index=True) if dfs else pd.DataFrame() (line 273)
RECURSIVE Concat(_)
Concat(fs) == IF fs = <<>> THEN <<>> ELSE Head(fs) \o Concat(Tail(fs))

\* line 268 with "<=" written for "<": a page of exactly five rows stops
StopsAfter_AtThreshold(n) == n <= MinRowsToContinue

\* line 268: if len(df) < 5: break
StopsAfter(n) == n < MinRowsToContinue

\* line 245: the for loop takes the next page number; lines 246-251 build
\* the parameters and call fetch_html (retries left at its default)
WalkNextPage ==
    /\ w_pc = "loop"
    /\ page < max_pages
    /\ page' = page + 1
    /\ requested' = Append(requested, page + 1)
    /\ FetchEntry(DefaultRetries)
    /\ w_pc' = "fetching"
    /\ UNCHANGED <<max_pages, outcomes, dfs, w_result, w_err>>
    /\ UNCHANGED <<pvars, tvars, mvars, gvars>>

\* line 245: range(1, max_pages + 1) is used up; line 273 returns
WalkLoopEnd ==
    /\ w_pc = "loop"
    /\ page >= max_pages
    /\ w_pc' = "returned"
    /\ w_result' = Concat(dfs)
    /\ UNCHANGED <<max_pages, page, requested, outcomes, dfs, w_err>>
    /\ UNCHANGED <<pvars, tvars, fvars, mvars, gvars>>

\* line 251 wrapped in a handler that breaks out of the loop: the pages
\* parsed so far are returned
WalkFetchRaised_ReturnsPartial ==
    /\ w_pc = "fetching"
    /\ f_pc = "raised"
    /\ w_pc' = "returned"
    /\ w_result' = Concat(dfs)
    /\ outcomes' = Append(outcomes, [kind |-> "fetch_error", n |-> 0])
    /\ UNCHANGED <<max_pages, page, requested, dfs, w_err>>
    /\ UNCHANGED <<pvars, tvars, fvars, mvars, gvars>>

\* line 251: fetch_html raised; nothing in fetch_dt_all_pages catches it
WalkFetchRaised ==
    /\ w_pc = "fetching"
    /\ f_pc = "raised"
    /\ w_pc' = "raised"
    /\ w_err' = "RuntimeError: Failed to fetch"
    /\ outcomes' = Append(outcomes, [kind |-> "fetch_error", n |-> 0])
    /\ UNCHANGED <<max_pages, page, requested, dfs, w_result>>
    /\ UNCHANGED <<pvars, tvars, fvars, mvars, gvars>>

\* lines 254-257: parse_rows raises on the fetched page (see DetectRaises);
\* nothing in fetch_dt_all_pages catches it
WalkParseRaised ==
    /\ w_pc = "fetching"
    /\ f_pc = "returned"
    /\ w_pc' = "raised"
    /\ w_err' = "parse_rows raised"
    /\ outcomes' = Append(outcomes, [kind |-> "parse_error", n |-> 0])
    /\ UNCHANGED <<max_pages, page, requested, dfs, w_result>>
    /\ UNCHANGED <<pvars, tvars, fvars, mvars, gvars>>

\* lines 259-261 returning an empty frame instead of breaking to line 273
WalkPageEmpty_DropsAll ==
    /\ w_pc = "fetching"
    /\ f_pc = "returned"
    /\ w_pc' = "returned"
    /\ w_result' = <<>>
    /\ outcomes' = Append(outcomes, [kind |-> "rows", n |-> 0])
    /\ UNCHANGED <<max_pages, page, requested, dfs, w_err>>
    /\ UNCHANGED <<pvars, tvars, fvars, mvars, gvars>>

\* lines 259-261: the page has no rows; break, then line 273
WalkPageEmpty ==
    /\ w_pc = "fetching"
    /\ f_pc = "returned"
    /\ w_pc' = "returned"
    /\ w_result' = Concat(dfs)
    /\ outcomes' = Append(outcomes, [kind |-> "rows", n |-> 0])
    /\ UNCHANGED <<max_pages, page, requested, dfs, w_err>>
    /\ UNCHANGED <<pvars, tvars, fvars, mvars, gvars>>

\* lines 263-269: the page has rows but fewer than five; break, line 273
WalkPageFew ==
    /\ w_pc = "fetching"
    /\ f_pc = "returned"
    /\ \E n \in 1..MaxPageRows :
          /\ StopsAfter(n)
          /\ dfs' = Append(dfs, PageRows(page, n))
          /\ w_result' = Concat(Append(dfs, PageRows(page, n)))
          /\ outcomes' = Append(outcomes, [kind |-> "rows", n |-> n])
    /\ w_pc' = "returned"
    /\ UNCHANGED <<max_pages, page, requested, w_err>>
    /\ UNCHANGED <<pvars, tvars, fvars, mvars, gvars>>

\* lines 263-271: the page has five rows or more; the loop goes on
WalkPageFull ==
    /\ w_pc = "fetching"
    /\ f_pc = "returned"
    /\ \E n \in 1..MaxPageRows :
          /\ ~StopsAfter(n)
          /\ dfs' = Append(dfs, PageRows(page, n))
          /\ outcomes' = Append(outcomes, [kind |-> "rows", n |-> n])
    /\ w_pc' = "loop"
    /\ UNCHANGED <<max_pages, page, requested, w_result, w_err>>
    /\ UNCHANGED <<pvars, tvars, fvars, mvars, gvars>>

\* lines 297 and 312-314: the walk raised; debug_error.txt, then re-raise
MainWalkRaised ==
    /\ m_pc = "walking"
    /\ w_pc = "raised"
    /\ debug_error' = w_err
    /\ m_pc' = "failed"
    /\ UNCHANGED <<append_dedupe, csv_written>>
    /\ UNCHANGED <<pvars, tvars, fvars, wvars, gvars>>

\* lines 298-299 and 312-314: the walk returned no rows: RuntimeError
MainZeroRows ==
    /\ m_pc = "walking"
    /\ w_pc = "returned"
    /\ w_result = <<>>
    /\ debug_error' = "RuntimeError: Parsed 0 rows from all pages"
    /\ m_pc' = "failed"
    /\ UNCHANGED <<append_dedupe, csv_written>>
    /\ UNCHANGED <<pvars, tvars, fvars, wvars, gvars>>

\* lines 301-304 and 312-314: the walk returned rows.  Line 304 reads
\* "args.append-dedupe", the subtraction args.append - dedupe; the namespace
\* has append_dedupe but no attribute append, so AttributeError is raised
\* whatever the flag, before either to_csv call
MainOptionError ==
    /\ m_pc = "walking"
    /\ w_pc = "returned"
    /\ w_result # <<>>
    /\ debug_error' = "AttributeError: append"
    /\ m_pc' = "failed"
    /\ UNCHANGED <<append_dedupe, csv_written>>
    /\ UNCHANGED <<pvars, tvars, fvars, wvars, gvars>>

\* main after parse_args (line 294) has called fetch_dt_all_pages (line 297)
InitRun ==
    /\ m_pc = "walking"
    /\ append_dedupe \in BOOLEAN
    /\ csv_written = FALSE
    /\ debug_error = "none"
    /\ max_pages \in 0..MaxPagesArg
    /\ w_pc = "loop"
    /\ page = 0
    /\ requested = <<>>
    /\ outcomes = <<>>
    /\ dfs = <<>>
    /\ w_result = <<>>
    /\ w_err = "none"
    /\ IdleParse /\ IdleTwice /\ IdleFetch /\ IdleMerge

NextRun ==
    \/ WalkNextPage
    \/ WalkLoopEnd
    \/ FetchSuccess
    \/ FetchFailure
    \/ FetchExhausted
    \/ WalkFetchRaised
    \/ WalkParseRaised
    \/ WalkPageEmpty
    \/ WalkPageFew
    \/ WalkPageFull
    \/ MainWalkRaised
    \/ MainZeroRows
    \/ MainOptionError

SpecRun == InitRun /\ [][NextRun]_vars

---------------------------------------------------------------------------
(* Properties of the page walk, the fetch and main                         *)

WalkOver == w_pc \in {"returned", "raised"}

\* page k was fetched and parsed, and gave at least five rows
GaveFiveOrMore(k) ==
    k <= Len(outcomes) /\ outcomes[k].kind = "rows" /\ outcomes[k].n >= 5

\* C11: pages are requested in the order 1, 2, 3, ... without gap or
\* repetition, never more than max_pages of them, and page k+1 is requested
\* if and only if page k was fetched, gave at least 5 records and
\* k < max_pages.
C11_PagesInOrder ==
    /\ requested = [k \in 1..Len(requested) |-> k]
    /\ Len(requested) <= max_pages
    /\ \A k \in 1..Len(requested) :
          (k + 1 <= Len(requested)) => (GaveFiveOrMore(k) /\ k < max_pages)
    /\ WalkOver =>
          /\ (max_pages >= 1) => Len(requested) >= 1
          /\ \A k \in 1..Len(requested) :
                (GaveFiveOrMore(k) /\ k < max_pages) => (k + 1 <= Len(requested))

\* C11 witness: the walk is over after page 2 of 3 gave fewer than 5 rows
C11_Witness ==
    /\ w_pc = "returned"
    /\ max_pages = 3
    /\ Len(requested) = 2
    /\ outcomes[1].n >= 5
    /\ outcomes[2].kind = "rows" /\ outcomes[2].n \in 1..4

\* the rows of pages 1..j as the outcomes record them
RECURSIVE RowsOfPages(_)
RowsOfPages(j) ==
    IF j = 0 THEN <<>> ELSE RowsOfPages(j - 1) \o PageRows(j, outcomes[j].n)

ZeroRowsAt(k) == Len(outcomes) = k /\ outcomes[k].kind = "rows" /\ outcomes[k].n = 0

\* C12: if page 1 yields zero records the walk returns nothing, main ends in
\* the zero-rows error and no output is written; if a later page k > 1
\* yields zero records the walk stops without error and returns exactly the
\* records of pages 1..k-1, and main does not raise the zero-rows error.
C12_ZeroRowsFatalOnlyOnFirstPage ==
    /\ ZeroRowsAt(1) =>
          /\ w_pc = "returned" /\ w_result = <<>>
          /\ ~csv_written
          /\ m_pc \in {"walking", "failed"}
          /\ (m_pc = "failed") => debug_error = "RuntimeError: Parsed 0 rows from all pages"
    /\ \A k \in 2..Len(outcomes) :
          ZeroRowsAt(k) =>
              /\ w_pc = "returned" /\ w_err = "none"
              /\ w_result = RowsOfPages(k - 1)
              /\ w_result # <<>>
              /\ debug_error # "RuntimeError: Parsed 0 rows from all pages"
              /\ debug_error # "RuntimeError: Failed to fetch"
              /\ debug_error # "parse_rows raised"

\* C12 witness: page 2 gave zero records after a full page 1 and main is over
C12_Witness == ZeroRowsAt(2) /\ m_pc # "walking" /\ Len(w_result) >= 5

\* C14: once the fetch of page k has exhausted its retries, the walk has
\* raised, no page after k is requested, no records are returned (those of
\* pages 1..k-1 included), no CSV is written and main fails with that error.
C14_FetchFailureAbortsRun ==
    \A k \in 1..Len(outcomes) :
        (outcomes[k].kind = "fetch_error") =>
            /\ k = Len(outcomes)
            /\ Len(requested) = k
            /\ w_pc = "raised"
            /\ w_result = <<>>
            /\ ~csv_written
            /\ m_pc \in {"walking", "failed"}
            /\ (m_pc = "failed") => debug_error = "RuntimeError: Failed to fetch"

\* C14 witness: the fetch of page 2 failed after page 1 had given records,
\* and main has failed
C14_Witness ==
    /\ Len(outcomes) = 2
    /\ outcomes[2].kind = "fetch_error"
    /\ dfs # <<>>
    /\ m_pc = "failed"

\* C20: whenever the page walk returns at least one record, main finishes
\* without error and writes the output CSV.
C20_RecordsAreWritten ==
    (m_pc # "walking" /\ w_pc = "returned" /\ w_result # <<>>) =>
        (m_pc = "done" /\ csv_written /\ debug_error = "none")

\* an answer with status 200 and a non-empty body
GoodAnswer(r) == r.exc = FALSE /\ r.status = 200 /\ r.body # ""

\* C13: fetch_html makes at most `retries` attempts; it returns the content
\* of the first attempt that answers 200 with a non-empty body and makes no
\* attempt after it; when all attempts fail it raises, carrying the failure
\* of the last attempt.
C13_FetchRetries ==
    /\ Len(responses) = attempt
    /\ attempt <= retries
    /\ \A k \in 1..(Len(responses) - 1) : ~GoodAnswer(responses[k])
    /\ (f_pc = "try") => \A k \in 1..Len(responses) : ~GoodAnswer(responses[k])
    /\ (f_pc = "returned") =>
          /\ Len(responses) >= 1
          /\ GoodAnswer(responses[Len(responses)])
          /\ f_body = responses[Len(responses)].body
    /\ (f_pc = "raised") =>
          /\ Len(responses) = retries
          /\ \A k \in 1..Len(responses) : ~GoodAnswer(responses[k])
          /\ (retries >= 1) =>
                last_err = (IF responses[retries].exc
                            THEN [type |-> "ConnectionError", status |-> 0]
                            ELSE [type |-> "RuntimeError", status |-> responses[retries].status])

\* C13 witness: all attempts failed in different ways and the error raised
\* is the one of the last attempt
C13_Witness ==
    /\ f_pc = "raised"
    /\ retries >= 2
    /\ responses[1].exc
    /\ ~responses[retries].exc
    /\ responses[retries].status = 200
    /\ last_err = [type |-> "RuntimeError", status |-> 200]

(***************************************************************************)
(* merge_dedupe (lines 276-284).  A frame has a set of columns and a       *)
(* sequence of rows, each row a record over those columns.  The existing   *)
(* file holds text; read_csv turns every field that is one of pandas'      *)
(* default missing-value markers into NaN although dtype=str is given.  A  *)
(* frame cell is therefore either a string or NaN.  drop_duplicates treats *)
(* two NaN cells as equal, and to_csv writes a NaN cell as the empty       *)
(* field.  Columns carry the English names of MakeRow.                     *)
(***************************************************************************)
MaxOld == 2
MaxNew == 2

NA_VALUES ==
    {"", "#N/A", "#N/A N/A", "#NA", "-1.#IND", "-1.#QNAN", "-NaN", "-nan",
     "1.#IND", "1.#QNAN", "<NA>", "N/A", "NA", "NULL", "NaN", "None",
     "n/a", "nan", "null"}

Str(s) == [na |-> FALSE, s |-> s]
NaN == [na |-> TRUE, s |-> ""]

ReadCsvField(s) == IF s \in NA_VALUES THEN NaN ELSE Str(s)
WriteCsvField(c) == IF c.na THEN "" ELSE c.s

\* read_csv of the file's text: every field converted, columns kept
ReadCsv(file) ==
    [columns |-> file.columns,
     rows |-> [k \in 1..Len(file.rows) |->
                  [c \in file.columns |-> ReadCsvField(file.rows[k][c])]]]

\* astype(str) of a frame of strings
AsTypeStr(df) ==
    [columns |-> df.columns,
     rows |-> [k \in 1..Len(df.rows) |-> [c \in df.columns |-> Str(df.rows[k][c])]]]

\* to_csv: the text of every cell
WriteCsv(df) ==
    [columns |-> df.columns,
     rows |-> [k \in 1..Len(df.rows) |->
                  [c \in df.columns |-> WriteCsvField(df.rows[k][c])]]]

\* pd.concat([a, b], ignore_index=True): the columns of both, the rows of a
\* then those of b, a cell of a column the row's frame lacks being NaN
ConcatFrames(a, b) ==
    LET cols == a.columns \cup b.columns
        Fill(r) == [c \in cols |-> IF c \in DOMAIN r THEN r[c] ELSE NaN]
    IN [columns |-> cols,
        rows |-> [k \in 1..Len(a.rows) |-> Fill(a.rows[k])]
                 \o [k \in 1..Len(b.rows) |-> Fill(b.rows[k])]]

\* the list of line 283: date, play time, song name, performer
KeyColumns == {"date", "time", "song", "performer"}

\* keys = [k for k in [...] if k in combined.columns]
keys(df) == KeyColumns \cap df.columns

\* what two rows are compared on: the key columns present, or the whole
\* row when there is none (line 284)
KeyOf(df, r) == IF keys(df) = {} THEN r ELSE [c \in keys(df) |-> r[c]]

\* keep="last": a row stays when no later row has an equal key
KeptLast(df, k) ==
    ~ \E j \in (k + 1)..Len(df.rows) : KeyOf(df, df.rows[j]) = KeyOf(df, df.rows[k])

RECURSIVE DropFrom(_, _)
DropFrom(df, k) ==
    IF k > Len(df.rows) THEN <<>>
    ELSE (IF KeptLast(df, k) THEN <<df.rows[k]>> ELSE <<>>) \o DropFrom(df, k + 1)

drop_duplicates(df) == [columns |-> df.columns, rows |-> DropFrom(df, 1)]

\* the frames the merge is run on: all five columns, the performer column
\* missing, or the album column alone
AllColumns == {"date", "time", "song", "performer", "album"}
ColumnSets == {AllColumns, AllColumns \ {"performer"}, {"album"}}

MergeSongs == {"Song A", "N/A"}
MergeTimes == {"08:00", "08:05"}
MergeAlbums == {"", "Album A"}

FieldValues(c) ==
    CASE c = "date" -> {"2024-01-10"}
      [] c = "time" -> MergeTimes
      [] c = "song" -> MergeSongs
      [] c = "performer" -> {"Artist A"}
      [] c = "album" -> MergeAlbums

MergeRecords(cols) ==
    {r \in [cols -> UNION {FieldValues(c) : c \in cols}] : \A c \in cols : r[c] \in FieldValues(c)}

SeqsUpTo(S, lo, hi) == UNION {[1..n -> S] : n \in lo..hi}

Frames(lo, hi) ==
    UNION {{[columns |-> cols, rows |-> rs] : rs \in SeqsUpTo(MergeRecords(cols), lo, hi)} :
               cols \in ColumnSets}

NoFrame == [columns |-> {}, rows |-> <<>>]

\* existing_path.exists(): read the file and put the new frame after it
MergeExisting ==
    /\ g_pc = "start"
    /\ g_exists
    /\ g_out' = ConcatFrames(ReadCsv(g_old), AsTypeStr(g_new))
    /\ g_pc' = "combined"
    /\ UNCHANGED <<g_exists, g_old, g_new>>
    /\ UNCHANGED <<pvars, tvars, fvars, wvars, mvars>>

\* no file: the new frame alone
MergeNoFile ==
    /\ g_pc = "start"
    /\ ~g_exists
    /\ g_out' = AsTypeStr(g_new)
    /\ g_pc' = "combined"
    /\ UNCHANGED <<g_exists, g_old, g_new>>
    /\ UNCHANGED <<pvars, tvars, fvars, wvars, mvars>>

\* lines 283-284: the key columns present, then drop_duplicates
MergeDropDuplicates ==
    /\ g_pc = "combined"
    /\ g_out' = drop_duplicates(g_out)
    /\ g_pc' = "done"
    /\ UNCHANGED <<g_exists, g_old, g_new>>
    /\ UNCHANGED <<pvars, tvars, fvars, wvars, mvars>>

InitMerge ==
    /\ g_pc = "start"
    /\ g_exists \in BOOLEAN
    /\ g_old \in (IF g_exists THEN Frames(0, MaxOld) ELSE {NoFrame})
    /\ g_new \in Frames(1, MaxNew)
    /\ g_out = NoFrame
    /\ IdleParse /\ IdleTwice /\ IdleFetch /\ IdleWalk /\ IdleMain

NextMerge ==
    \/ MergeExisting
    \/ MergeNoFile
    \/ MergeDropDuplicates

SpecMerge == InitMerge /\ [][NextMerge]_vars

\* The records given to merge_dedupe, existing ones first.
MergeInputs == g_old.rows \o g_new.rows

\* every record given to the merge has the four key fields
AllKeyed ==
    /\ KeyColumns \subseteq g_new.columns
    /\ g_exists => KeyColumns \subseteq g_old.columns

\* the key of the claim
RecordKey(r) == <<r.date, r.time, r.song, r.performer>>

LastWithKey(cat, key) ==
    CHOOSE i \in DOMAIN cat :
        /\ RecordKey(cat[i]) = key
        /\ \A j \in DOMAIN cat : RecordKey(cat[j]) = key => j <= i

\* what the claim promises of the merge of records that have the key fields
OnePerKeyTheLast ==
    LET out == WriteCsv(g_out).rows
        cat == MergeInputs
    IN  /\ \A i \in DOMAIN cat :
            /\ Cardinality({k \in DOMAIN out : RecordKey(out[k]) = RecordKey(cat[i])}) = 1
            /\ \E k \in DOMAIN out : out[k] = cat[LastWithKey(cat, RecordKey(cat[i]))]
        /\ \A k \in DOMAIN out : \E i \in DOMAIN cat : RecordKey(cat[i]) = RecordKey(out[k])

\* C15: the frame merge_dedupe returns holds, for every key (date, time,
\* song, performer) of an existing or a new record, exactly one record,
\* which is the last record with that key in existing-then-new order, and
\* it holds no record with any other key.  Records are compared as to_csv
\* writes them.
C15_MergeKeepsLastPerKey == (g_pc = "done" /\ AllKeyed) => OnePerKeyTheLast

\* the same statement restricted to merges whose existing file has no
\* key field that read_csv takes for a missing value
NoMissingMarkerKeys ==
    \A i \in DOMAIN g_old.rows : \A f \in KeyColumns : g_old.rows[i][f] \notin NA_VALUES

MergeKeepsLastPerKey_PlainKeys ==
    (g_pc = "done" /\ AllKeyed /\ NoMissingMarkerKeys) => OnePerKeyTheLast

\* rows without any key column are compared whole, rows with some key
\* columns on those: the merge of frames that have the album column alone
\* keeps one row per album
WholeRowFallback ==
    (g_pc = "done" /\ g_new.columns = {"album"} /\ g_old.columns \subseteq {"album"}) =>
        /\ \A i, j \in DOMAIN g_out.rows : g_out.rows[i] = g_out.rows[j] => i = j
        /\ Len(g_out.rows) >= 1

(***************************************************************************)
(* parse_rows called three times in one process: on a page, on some other *)
(* page, and on the first page again with the same reference date.  Each  *)
(* call is the one call above; CallAgain is the end of one call followed  *)
(* by the entry of the next, whose locals are new.  first_result keeps    *)
(* how the first call ended and saved its arguments.                      *)
(***************************************************************************)
MaxTwiceData == 3

TwicePages ==
    {h \o d : h \in HeaderRuns, d \in UNION {[1..k -> DataTokens] : k \in 0..MaxTwiceData}}
    \cup ExamplePages

\* the pages parsed between the two runs
MiddlePages ==
    { HeaderWithDate \o <<TokDate, TokTime, TokSongA, TokArtistA, TokAlbumA>>,
      HeaderWithoutDate \o <<TokTime2, TokSongB, TokArtistB>>,
      HeaderWithDate \o <<TokBadDate, TokTime, TokSongA, TokArtistA>>,
      <<TokTime, TokSongA, TokArtistA>> }

Outcome == [pc |-> pc, err |-> err, rows |-> rows]

\* line 169: rows = []
FreshRows == <<>>

CallAgain ==
    /\ pc \in {"done", "raised"}
    /\ call \in {1, 2}
    /\ IF call = 1
       THEN /\ first_result' = Outcome
            /\ saved' = [tokens |-> tokens, base_date |-> base_date, between |-> 0]
            /\ tokens' \in MiddlePages
            /\ base_date' \in RefDates
       ELSE /\ first_result' = first_result
            /\ saved' = [saved EXCEPT !.between = Len(rows)]
            /\ tokens' = saved.tokens
            /\ base_date' = saved.base_date
    /\ call' = call + 1
    /\ pc' = "start"
    /\ rows' = FreshRows
    /\ spans' = <<>>
    /\ err' = "none"
    /\ has_date' = FALSE
    /\ idx' = 0
    /\ UNCHANGED <<mmdd, resolved>>
    /\ UNCHANGED <<fvars, wvars, mvars, gvars>>

InitTwice ==
    /\ tokens \in TwicePages
    /\ base_date \in RefDates
    /\ pc = "start"
    /\ has_date = FALSE
    /\ idx = 0
    /\ rows = <<>>
    /\ spans = <<>>
    /\ err = "none"
    /\ mmdd = <<>>
    /\ resolved = NoResult
    /\ call = 1
    /\ first_result = <<>>
    /\ saved = <<>>
    /\ IdleFetch /\ IdleWalk /\ IdleMain /\ IdleMerge

NextTwice ==
    \/ DetectRaises
    \/ CallAgain

SpecTwice == InitTwice /\ [][NextTwice]_vars

\* C16: when parse_rows is run on a token sequence and reference date,
\* then on another page, then again on the first token sequence and
\* reference date, the second run ends as the first one did (returned or
\* raised the same error) with the identical sequence of records.
C16_SameInputSameRecords ==
    (call = 3 /\ CallOver) => Outcome = first_result

---------------------------------------------------------------------------
(* Properties of the scan of parse_rows                                    *)

\* the data region of a with-date page starts with a date token that no
\* time token follows
DateWithoutTimeAtStart ==
    /\ WithDateLayout
    /\ DataStart < Len(tokens)
    /\ DATE_MMDD_RE(tok(tokens, DataStart))
    /\ ~TimeFollows(tokens, DataStart)

\* date token, time token and two more tokens at p
DateTimeSongPerformerAt(p) ==
    /\ p + 3 < Len(tokens)
    /\ DATE_MMDD_RE(tok(tokens, p))
    /\ TIME_RE(tok(tokens, p + 1))

\* C17: in the with-date layout, a date token that is not immediately
\* followed by a time token gives no record and the scan goes on at the
\* token after it, which is not consumed: when that token is itself a date
\* token followed by a time token, song and performer, a record starts
\* there, dated by that token and not by the discarded one.  Stated for the
\* date token at the start of the data region, where the scan begins.
C17_DateWithoutTimeResumesAtNext ==
    (CallOver /\ DateWithoutTimeAtStart) =>
        /\ pc = "done"
        /\ DateTimeSongPerformerAt(DataStart + 1) =>
               /\ Len(rows) >= 1
               /\ rows[1].time = tok(tokens, DataStart + 2)
               /\ rows[1].song = tok(tokens, DataStart + 3)
               /\ rows[1].performer = tok(tokens, DataStart + 4)
               /\ mmdd_to_iso(tok(tokens, DataStart + 1), base_date).ok =>
                      rows[1].date = mmdd_to_iso(tok(tokens, DataStart + 1), base_date).iso

\* where the extras of the record started at s begin: after date, time,
\* song and performer, or after time, song and performer
ExtrasStart(s) == IF Layout.has_date THEN s + 4 ELSE s + 3

\* the tokens that end a run of extras in the layout of the page
ExtrasBoundary(t) ==
    \/ is_stop(t)
    \/ (Layout.has_date /\ DATE_MMDD_RE(t))
    \/ ((~Layout.has_date) /\ TIME_RE(t))

\* the first position from x on that holds a boundary token, or the number
\* of tokens when there is none
FirstBoundary(x) ==
    CHOOSE e \in x..Len(tokens) :
        /\ (e < Len(tokens) => ExtrasBoundary(tok(tokens, e)))
        /\ \A q \in x..(e - 1) : ~ExtrasBoundary(tok(tokens, q))

\* a record candidate of the page's layout at p
Occurrence(p) == IF Layout.has_date THEN DateOccurrence(p) ELSE TimeOccurrence(p)

\* record r is the record of the candidate at p with its extras: song and
\* performer are the two tokens before the extras, album, publisher and
\* catalog number the first three extras, the rest dropped
RecordWithExtras(r, p) ==
    LET x == ExtrasStart(p)
        e == FirstBoundary(x)
    IN /\ r.time = tok(tokens, x - 3)
       /\ r.song = tok(tokens, x - 2)
       /\ r.performer = tok(tokens, x - 1)
       /\ r.album = (IF e - x >= 1 THEN tok(tokens, x) ELSE <<>>)
       /\ r.publisher = (IF e - x >= 2 THEN tok(tokens, x + 1) ELSE <<>>)
       /\ r.catalog_number = (IF e - x >= 3 THEN tok(tokens, x + 2) ELSE <<>>)

\* C18: the extras of a record are the tokens after its performer up to,
\* not including, the first stop word, date token (with-date layout) or
\* time token (layout without a date column), or up to the end of the
\* tokens; album, publisher and catalog number are the 1st, 2nd and 3rd of
\* them and the rest is dropped; the next record attempt starts at the
\* token that ended the extras, and records come in token order.  Stated
\* for the candidate at the start of the data region and the candidate, if
\* any, at the token that ends its extras.
C18_ExtrasUpToBoundary ==
    (CallOver /\ Layout.ok /\ Occurrence(DataStart)) =>
        /\ Len(rows) >= 1
        /\ RecordWithExtras(rows[1], DataStart)
        /\ Occurrence(FirstBoundary(ExtrasStart(DataStart))) =>
               /\ Len(rows) >= 2
               /\ RecordWithExtras(rows[2], FirstBoundary(ExtrasStart(DataStart)))

\* One call of parse_rows that keeps executing: a sequential program that
\* nothing suspends, on the pages of at most MaxTwiceData data tokens.
InitScan ==
    /\ tokens \in TwicePages
    /\ base_date \in RefDates
    /\ pc = "start"
    /\ has_date = FALSE
    /\ idx = 0
    /\ rows = <<>>
    /\ spans = <<>>
    /\ err = "none"
    /\ mmdd = <<>>
    /\ resolved = NoResult
    /\ IdleTwice /\ IdleFetch /\ IdleWalk /\ IdleMain /\ IdleMerge

SpecScan == InitScan /\ [][Next]_vars /\ WF_vars(Next)

ScanOver == pc \in {"done", "raised"}

\* one iteration of the scan loop: it ends the scan or moves the cursor
\* forward, never back and never past the last token, and adds at most one
\* record
IterationAdvances ==
    pc = "scan" =>
        /\ pc' \in {"scan", "done", "raised"}
        /\ (pc' = "scan" => idx' > idx)
        /\ idx' >= idx
        /\ idx' <= Len(tokens)
        /\ tokens' = tokens
        /\ \/ rows' = rows
           \/ Len(rows') = Len(rows) + 1

\* C19: the scan loop of parse_rows terminates on every page: each
\* iteration ends the scan or strictly advances the cursor, the cursor
\* never moves backwards and never exceeds the number of tokens, at most
\* one record is emitted per iteration, and every call comes to its end.
C19_ScanTerminates == [][IterationAdvances]_vars /\ <>ScanOver

====
